---- MODULE Spec2Model ----
(***************************************************************************)
(* Model of the Linear plugin for OpenClaw: plugin registration            *)
(* (client.ts, register), the six tool handlers (tools.ts,                 *)
(* registerLinearTools) and the GraphQL client they call (client.ts,       *)
(* LinearClient), together with the remote service the client talks to.    *)
(*                                                                         *)
(* A string the code inspects character by character (team keys, ticket    *)
(* identifiers, status names) is a sequence of one-character strings, so   *)
(* that toLowerCase and split("-") are computed and not assumed.  A value  *)
(* that may be null is a sequence of length at most one.  A parameter      *)
(* object is a function whose domain is the set of fields the caller       *)
(* supplied.                                                               *)
(***************************************************************************)
EXTENDS Integers, Sequences, FiniteSets, TLC

VARIABLES config, registered, warnings, infos, issues, inv, started

vars == <<config, registered, warnings, infos, issues, inv, started>>

-----------------------------------------------------------------------------
(* Bounds of the model *)

\* number of tool invocations the host starts in one run
MaxInvocations == 1

\* number of issues the remote workspace can hold
MaxIssues == 4

\* the two invocation slots of the host
Slots == {1, 2}

-----------------------------------------------------------------------------
(* Strings *)

UpperLetters == <<"A","B","C","D","E","F","G","H","I","J","K","L","M",
                  "N","O","P","Q","R","S","T","U","V","W","X","Y","Z">>

LowerLetters == <<"a","b","c","d","e","f","g","h","i","j","k","l","m",
                  "n","o","p","q","r","s","t","u","v","w","x","y","z">>

LowerChar(c) ==
  IF \E k \in 1..Len(UpperLetters) : UpperLetters[k] = c
    THEN LowerLetters[CHOOSE k \in 1..Len(UpperLetters) : UpperLetters[k] = c]
    ELSE c

toLowerCase(s) == [k \in 1..Len(s) |-> LowerChar(s[k])]

\* identifier.split("-")[0]: the characters before the first dash
SplitFirst(s) ==
  IF \E k \in 1..Len(s) : s[k] = "-"
    THEN SubSeq(s, 1, (CHOOSE k \in 1..Len(s) :
                         s[k] = "-" /\ \A m \in 1..(k-1) : s[m] # "-") - 1)
    ELSE s

\* JavaScript truthiness of an optional string or number parameter
Has(p, f) == f \in DOMAIN p

\* title, description: plain strings, "" is the empty one
TruthyText(p, f) == Has(p, f) /\ p[f] # ""

\* status, keys: character sequences, << >> is the empty one
TruthyChars(p, f) == Has(p, f) /\ p[f] # << >>

TruthyNumber(p, f) == Has(p, f) /\ p[f] # 0

\* the fields of p named in fs, as an object with only those fields
Pick(p, fs) == [f \in (DOMAIN p) \cap fs |-> p[f]]

-----------------------------------------------------------------------------
(* The remote workspace *)

KeyENG == <<"E","N","G">>
KeyOPS == <<"O","P","S">>

Teams == << [id |-> "t1", key |-> KeyENG, name |-> "Engineering"],
            [id |-> "t2", key |-> KeyOPS, name |-> "Operations"] >>

NameTodo == <<"T","o","d","o">>
NameDone == <<"D","o","n","e">>
NameOpen == <<"O","p","e","n">>

WorkflowStates(teamId) ==
  IF teamId = "t1"
    THEN << [id |-> "s1", name |-> NameTodo], [id |-> "s2", name |-> NameDone] >>
    ELSE IF teamId = "t2"
      THEN << [id |-> "s3", name |-> NameOpen] >>
      ELSE << >>

AllStates == WorkflowStates("t1") \o WorkflowStates("t2")

Users == << [id |-> "u1", name |-> "Sarah", email |-> "sarah@x", active |-> TRUE],
            [id |-> "u2", name |-> "John", email |-> "john@x", active |-> FALSE] >>

IdENG1 == <<"E","N","G","-","1">>
IdENG2 == <<"E","N","G","-","2">>
IdENG9 == <<"E","N","G","-","9">>
IdOLD7 == <<"O","L","D","-","7">>
IdOPS1 == <<"O","P","S","-","1">>
IdOPS2 == <<"O","P","S","-","2">>

IssueIds == <<"i1", "i2", "i3", "i4", "i5", "i6", "i7">>

PriorityLabel(p) ==
  CASE p = 0 -> "No priority"
    [] p = 1 -> "Urgent"
    [] p = 2 -> "High"
    [] p = 3 -> "Medium"
    [] OTHER -> "Low"

\* The workspace at the start.  OLD-7 is an issue of team ENG that keeps the
\* identifier it got under the team's former key.
InitialIssues ==
  << [id |-> "i1", identifier |-> IdENG1, team |-> "t1", title |-> "Login bug",
      description |-> <<"Old text">>, url |-> <<"https://linear.app/issue", "i1">>, priority |-> 1,
      priorityLabel |-> PriorityLabel(1),
      state |-> [id |-> "s1", name |-> NameTodo], assignee |-> << >>],
     [id |-> "i2", identifier |-> IdOLD7, team |-> "t1", title |-> "Legacy",
      description |-> << >>, url |-> <<"https://linear.app/issue", "i2">>, priority |-> 1,
      priorityLabel |-> PriorityLabel(1),
      state |-> [id |-> "s1", name |-> NameTodo], assignee |-> <<Users[2]>>],
     [id |-> "i3", identifier |-> IdOPS1, team |-> "t2", title |-> "Pager",
      description |-> << >>, url |-> <<"https://linear.app/issue", "i3">>, priority |-> 3,
      priorityLabel |-> PriorityLabel(3),
      state |-> [id |-> "s3", name |-> NameOpen], assignee |-> << >>] >>

\* Array.prototype.filter
Filter(s, Test(_)) == SelectSeq(s, Test)

\* Array.prototype.find: the first element that satisfies Test, or undefined
Find(s, Test(_)) ==
  IF \E k \in 1..Len(s) : Test(s[k])
    THEN << s[CHOOSE k \in 1..Len(s) :
                Test(s[k]) /\ \A m \in 1..(k-1) : ~Test(s[m])] >>
    ELSE << >>

Take(s, n) == SubSeq(s, 1, IF n < Len(s) THEN n ELSE Len(s))

TeamKeyOf(teamId) == (Find(Teams, LAMBDA t : t.id = teamId))[1].key

Digits == <<"1", "2", "3", "4", "5", "6", "7", "8", "9">>

-----------------------------------------------------------------------------
(* Requests the client sends (one GraphQL document each) and the answers   *)
(* the remote service can give.  client.request either throws (Error) or   *)
(* resolves to the data of the document.                                   *)

ReqIssue(identifier) == [kind |-> "issue", identifier |-> identifier]
ReqSearch(identifier) == [kind |-> "searchIssue", identifier |-> identifier]
ReqTeams == [kind |-> "teams"]
ReqStates(teamId) == [kind |-> "states", teamId |-> teamId]
ReqUsers == [kind |-> "users"]
ReqCreate(input) == [kind |-> "issueCreate", input |-> input]
ReqUpdate(id, input) == [kind |-> "issueUpdate", id |-> id, input |-> input]
ReqList(filter, limit) == [kind |-> "listIssues", filter |-> filter, limit |-> limit]

MutationKinds == {"issueCreate", "issueUpdate"}

Error == [t |-> "error"]
Data(d) == [t |-> "data", data |-> d]

PayloadFields == {"id", "identifier", "title", "description", "url", "priority",
                  "priorityLabel", "state", "assignee"}

\* the selection set every ticket-shaped document asks for
Payload(issue) == Pick(issue, PayloadFields)

PayloadSeq(s) == [k \in 1..Len(s) |-> Payload(s[k])]

ByIdentifier(iss, identifier) == Filter(iss, LAMBDA x : x.identifier = identifier)

\* issueUpdate: a field of the input that is absent leaves the issue's value
ApplyUpdate(issue, input) ==
  [issue EXCEPT
     !.title = IF Has(input, "title") THEN input.title ELSE @,
     !.description = IF Has(input, "description") THEN <<input.description>> ELSE @,
     !.priority = IF Has(input, "priority") THEN input.priority ELSE @,
     !.priorityLabel = IF Has(input, "priority") THEN PriorityLabel(input.priority) ELSE @,
     !.state = IF Has(input, "stateId")
                 THEN (Find(AllStates, LAMBDA st : st.id = input.stateId))[1] ELSE @,
     !.assignee = IF Has(input, "assigneeId")
                    THEN Find(Users, LAMBDA u : u.id = input.assigneeId) ELSE @]

ValidUpdate(input) ==
  /\ Has(input, "stateId") => \E k \in 1..Len(AllStates) : AllStates[k].id = input.stateId
  /\ Has(input, "assigneeId") => \E k \in 1..Len(Users) : Users[k].id = input.assigneeId

\* issueCreate: the issue the service makes of the input
NewIssue(iss, input) ==
  LET key == TeamKeyOf(input.teamId)
      n == 1 + Len(Filter(iss, LAMBDA x : SplitFirst(x.identifier) = key))
      id == IssueIds[Len(iss) + 1]
  IN [id |-> id, identifier |-> key \o <<"-", Digits[n]>>, team |-> input.teamId,
      title |-> input.title,
      description |-> IF Has(input, "description") THEN <<input.description>> ELSE << >>,
      url |-> <<"https://linear.app/issue", id>>, priority |-> 0, priorityLabel |-> PriorityLabel(0),
      state |-> WorkflowStates(input.teamId)[1],
      assignee |-> IF Has(input, "assigneeId")
                     THEN Find(Users, LAMBDA u : u.id = input.assigneeId) ELSE << >>]

ValidCreate(iss, input) ==
  /\ Len(iss) < MaxIssues
  /\ \E k \in 1..Len(Teams) : Teams[k].id = input.teamId
  /\ Has(input, "assigneeId") => \E k \in 1..Len(Users) : Users[k].id = input.assigneeId

\* IssueFilter: team.key.eq and state.name.eq compare exactly
MatchesFilter(issue, filter) ==
  /\ TeamKeyOf(issue.team) = filter.team
  /\ Has(filter, "state") => issue.state.name = filter.state

\* The answers to request r when the workspace holds iss, each with the
\* workspace it leaves.  Every request can fail in transport; a mutation can
\* also be answered with success = false.
RemoteOutcomes(r, iss) ==
  {[resp |-> Error, issues |-> iss]} \cup
  CASE r.kind = "issue" ->
         LET m == ByIdentifier(iss, r.identifier)
         IN {[resp |-> Data([issue |-> IF m = << >> THEN << >> ELSE <<Payload(m[1])>>]),
              issues |-> iss]}
    [] r.kind = "searchIssue" ->
         {[resp |-> Data([nodes |-> PayloadSeq(Take(ByIdentifier(iss, r.identifier), 1))]),
           issues |-> iss]}
    [] r.kind = "teams" -> {[resp |-> Data([nodes |-> Teams]), issues |-> iss]}
    [] r.kind = "states" ->
         {[resp |-> Data([nodes |-> WorkflowStates(r.teamId)]), issues |-> iss]}
    [] r.kind = "users" -> {[resp |-> Data([nodes |-> Users]), issues |-> iss]}
    [] r.kind = "listIssues" ->
         {[resp |-> Data([nodes |->
              PayloadSeq(Take(Filter(iss, LAMBDA x : MatchesFilter(x, r.filter)), r.limit))]),
           issues |-> iss]}
    [] r.kind = "issueCreate" ->
         {[resp |-> Data([success |-> FALSE, issue |-> << >>]), issues |-> iss]} \cup
         (IF ValidCreate(iss, r.input)
            THEN {[resp |-> Data([success |-> TRUE,
                                  issue |-> <<Payload(NewIssue(iss, r.input))>>]),
                   issues |-> Append(iss, NewIssue(iss, r.input))]}
            ELSE {})
    [] r.kind = "issueUpdate" ->
         {[resp |-> Data([success |-> FALSE, issue |-> << >>]), issues |-> iss]} \cup
         (IF ValidUpdate(r.input) /\ \E k \in 1..Len(iss) : iss[k].id = r.id
            THEN LET k == CHOOSE k \in 1..Len(iss) : iss[k].id = r.id
                     upd == ApplyUpdate(iss[k], r.input)
                 IN {[resp |-> Data([success |-> TRUE, issue |-> <<Payload(upd)>>]),
                      issues |-> [iss EXCEPT ![k] = upd]]}
            ELSE {})

-----------------------------------------------------------------------------
(* Control: what a piece of code does when it is resumed with the answer   *)
(* of the call it awaited: await the next call, complete, or throw.        *)

Ok(v) == [k |-> "ok", value |-> v]
Throw(e) == [k |-> "throw", error |-> e]
Await(pc, req, u) == [k |-> "await", pc |-> pc, req |-> <<req>>, updates |-> u]
Return(text) == [k |-> "return", text |-> text]

TransportError == [message |-> "request failed"]
NotFound(identifier) == [message |-> "Ticket not found", identifier |-> identifier]
CreateFailed == [message |-> "Failed to create ticket"]
UpdateFailed == [message |-> "Failed to update ticket"]

-----------------------------------------------------------------------------
(* LinearClient *)

mapIssue(issue) ==
  [id |-> issue.id,
   identifier |-> issue.identifier,
   title |-> issue.title,
   description |-> issue.description,
   status |-> [id |-> issue.state.id, name |-> issue.state.name],
   priority |-> issue.priority,
   priorityLabel |-> issue.priorityLabel,
   assignee |-> IF issue.assignee # << >>
                  THEN << [id |-> issue.assignee[1].id,
                           name |-> issue.assignee[1].name,
                           email |-> issue.assignee[1].email,
                           active |-> issue.assignee[1].active] >>
                  ELSE << >>,
   url |-> issue.url]

\* getTicket without the search: a failed primary lookup is the failure
getTicketWithoutSearch(stage, identifier, resp) ==
  IF resp.t = "error" THEN Throw(TransportError)
  ELSE IF resp.data.issue = << >> THEN Throw(NotFound(identifier))
  ELSE Ok(mapIssue(resp.data.issue[1]))

\* getTicket that starts over with the primary lookup when the search fails
getTicketRetrying(stage, identifier, resp) ==
  IF stage = "primary"
    THEN IF resp.t = "error" \/ resp.data.issue = << >>
           THEN [k |-> "await", stage |-> "search", req |-> ReqSearch(identifier)]
           ELSE Ok(mapIssue(resp.data.issue[1]))
    ELSE IF resp.t = "error"
           THEN [k |-> "await", stage |-> "primary", req |-> ReqIssue(identifier)]
           ELSE IF Len(resp.data.nodes) = 0
                  THEN Throw(NotFound(identifier))
                  ELSE Ok(mapIssue(resp.data.nodes[1]))

\* getTicket that sends the search once more when the search request fails
getTicketSearchingTwice(stage, identifier, resp) ==
  IF stage = "primary"
    THEN IF resp.t = "error" \/ resp.data.issue = << >>
           THEN [k |-> "await", stage |-> "search", req |-> ReqSearch(identifier)]
           ELSE Ok(mapIssue(resp.data.issue[1]))
    ELSE IF resp.t = "error"
           THEN IF stage = "search"
                  THEN [k |-> "await", stage |-> "search again",
                        req |-> ReqSearch(identifier)]
                  ELSE Throw(TransportError)
           ELSE IF Len(resp.data.nodes) = 0
                  THEN Throw(NotFound(identifier))
                  ELSE Ok(mapIssue(resp.data.nodes[1]))

\* getTicket, resumed at stage "primary" or "search" with the answer resp.
\* A primary answer without an issue makes mapIssue throw inside the try
\* block, which the catch turns into the search as well.
getTicket(stage, identifier, resp) ==
  IF stage = "primary"
    THEN IF resp.t = "error" \/ resp.data.issue = << >>
           THEN [k |-> "await", stage |-> "search", req |-> ReqSearch(identifier)]
           ELSE Ok(mapIssue(resp.data.issue[1]))
    ELSE IF resp.t = "error"
           THEN Throw(TransportError)
           ELSE IF Len(resp.data.nodes) = 0
                  THEN Throw(NotFound(identifier))
                  ELSE Ok(mapIssue(resp.data.nodes[1]))

getTicketStart(identifier) == ReqIssue(identifier)

\* createTicket, resumed with the answer of the issueCreate mutation
createTicket(resp) ==
  IF resp.t = "error" THEN Throw(TransportError)
  ELSE IF ~resp.data.success THEN Throw(CreateFailed)
  ELSE Ok(mapIssue(resp.data.issue[1]))

\* updateTicket that addresses the mutation by the identifier it was given
updateTicketByIdentifier(stage, identifier, updates, resp) ==
  IF stage \in {"primary", "search"}
    THEN LET g == getTicket(stage, identifier, resp)
         IN IF g.k = "ok"
              THEN [k |-> "await", stage |-> "mutate",
                    req |-> ReqUpdate(identifier, updates)]
              ELSE g
    ELSE IF resp.t = "error" THEN Throw(TransportError)
    ELSE IF ~resp.data.success THEN Throw(UpdateFailed)
    ELSE Ok(mapIssue(resp.data.issue[1]))

\* updateTicket that writes the ticket it fetched back with the updates laid
\* over it
updateTicketWholeTicket(stage, identifier, updates, resp) ==
  IF stage \in {"primary", "search"}
    THEN LET g == getTicket(stage, identifier, resp)
         IN IF g.k = "ok"
              THEN [k |-> "await", stage |-> "mutate",
                    req |-> ReqUpdate(g.value.id,
                              updates @@ [title |-> g.value.title,
                                          priority |-> g.value.priority])]
              ELSE g
    ELSE IF resp.t = "error" THEN Throw(TransportError)
    ELSE IF ~resp.data.success THEN Throw(UpdateFailed)
    ELSE Ok(mapIssue(resp.data.issue[1]))

\* updateTicket, resumed at stage "primary", "search" or "mutate"
updateTicket(stage, identifier, updates, resp) ==
  IF stage \in {"primary", "search"}
    THEN LET g == getTicket(stage, identifier, resp)
         IN IF g.k = "ok"
              THEN [k |-> "await", stage |-> "mutate",
                    req |-> ReqUpdate(g.value.id, updates)]
              ELSE g
    ELSE IF resp.t = "error" THEN Throw(TransportError)
    ELSE IF ~resp.data.success THEN Throw(UpdateFailed)
    ELSE Ok(mapIssue(resp.data.issue[1]))

\* listTickets: the filter and the request it sends
listTicketsStart(teamKey, status, limit) ==
  ReqList(("team" :> teamKey) @@
          (IF status # << >> /\ status[1] # << >> THEN "state" :> status[1] ELSE << >>),
          limit)

listTickets(resp) ==
  IF resp.t = "error" THEN Throw(TransportError)
  ELSE Ok([k \in 1..Len(resp.data.nodes) |-> mapIssue(resp.data.nodes[k])])

getUsers(resp) ==
  IF resp.t = "error" THEN Throw(TransportError)
  ELSE Ok([k \in 1..Len(resp.data.nodes) |->
             [id |-> resp.data.nodes[k].id, name |-> resp.data.nodes[k].name,
              email |-> resp.data.nodes[k].email, active |-> resp.data.nodes[k].active]])

getTeams(resp) ==
  IF resp.t = "error" THEN Throw(TransportError) ELSE Ok(resp.data.nodes)

getWorkflowStates(resp) ==
  IF resp.t = "error" THEN Throw(TransportError) ELSE Ok(resp.data.nodes)

-----------------------------------------------------------------------------
(* Text the handlers render *)

formatTicket(ticket) ==
  [identifier |-> ticket.identifier, title |-> ticket.title,
   status |-> ticket.status.name, priority |-> ticket.priorityLabel,
   assignee |-> IF ticket.assignee # << >> THEN ticket.assignee[1].name ELSE "Unassigned",
   description |-> IF ticket.description # << >> /\ ticket.description[1] # ""
                     THEN ticket.description ELSE << >>,
   url |-> ticket.url]

formatTicketList(tickets) ==
  IF Len(tickets) = 0 THEN << "No tickets found." >>
  ELSE [k \in 1..Len(tickets) |->
          [identifier |-> tickets[k].identifier, title |-> tickets[k].title,
           status |-> tickets[k].status.name,
           assignee |-> IF tickets[k].assignee # << >>
                          THEN <<tickets[k].assignee[1].name>> ELSE << >>]]

formatUserList(users) ==
  IF Len(users) = 0 THEN << "No users found." >>
  ELSE [k \in 1..Len(users) |->
          [name |-> users[k].name, email |-> users[k].email, id |-> users[k].id,
           inactive |-> ~users[k].active]]

ToolNames == << "linear_create_ticket", "linear_read_ticket", "linear_update_ticket",
                "linear_assign_ticket", "linear_list_tickets", "linear_get_users" >>

\* the fixed phrase of each handler's catch block
FailurePhrase(tool) ==
  CASE tool = "linear_create_ticket" -> "Failed to create ticket: "
    [] tool = "linear_read_ticket" -> "Failed to get ticket: "
    [] tool = "linear_update_ticket" -> "Failed to update ticket: "
    [] tool = "linear_assign_ticket" -> "Failed to assign ticket: "
    [] tool = "linear_list_tickets" -> "Failed to list tickets: "
    [] OTHER -> "Failed to get users: "

FailurePhrases == {FailurePhrase(ToolNames[k]) : k \in 1..Len(ToolNames)}

-----------------------------------------------------------------------------
(* The tool handlers.  XStart is the handler up to its first await,        *)
(* XResume the handler from the await at pc, given the answer resp, up to  *)
(* the next await or its end.  p is params, u the handler's updates.       *)

KeysOf(teams) == [k \in 1..Len(teams) |-> teams[k].key]

NamesOf(states) == [k \in 1..Len(states) |-> states[k].name]

\* team lookup that compares the keys as they are
FindTeamExact(teams, key) == Find(teams, LAMBDA t : t.key = key)

\* teams.find((t) => t.key.toLowerCase() === key.toLowerCase())
FindTeam(teams, key) == Find(teams, LAMBDA t : toLowerCase(t.key) = toLowerCase(key))

\* states.find((s) => s.name.toLowerCase() === status.toLowerCase())
FindState(states, status) ==
  Find(states, LAMBDA st : toLowerCase(st.name) = toLowerCase(status))

CreateStart(p) == Await(<<"create", "teams">>, ReqTeams, << >>)

CreateInput(p, team) ==
  ("title" :> p.title) @@ ("teamId" :> team.id) @@ Pick(p, {"description", "assigneeId"})

CreateResume(p, pc, resp) ==
  IF pc[2] = "teams"
    THEN LET t == getTeams(resp)
         IN IF t.k = "throw" THEN t
            ELSE LET team == FindTeam(t.value, p.projectKey)
                 IN IF team = << >>
                      THEN Return([tmpl |-> "Team with key not found. Available teams: ",
                                   key |-> p.projectKey, available |-> KeysOf(t.value)])
                      ELSE Await(<<"create", "issueCreate">>,
                                 ReqCreate(CreateInput(p, team[1])), << >>)
    ELSE LET c == createTicket(resp)
         IN IF c.k = "throw" THEN c
            ELSE Return([tmpl |-> "Created ticket", identifier |-> c.value.identifier,
                         url |-> c.value.url])

ReadStart(p) == Await(<<"read", "primary">>, getTicketStart(p.identifier), << >>)

ReadResume(p, pc, resp) ==
  LET g == getTicket(pc[2], p.identifier, resp)
  IN IF g.k = "ok" THEN Return([tmpl |-> "Ticket", ticket |-> formatTicket(g.value)])
     ELSE IF g.k = "await" THEN Await(<<"read", g.stage>>, g.req, << >>)
     ELSE g

\* the fields the update handler copies from params into updates
CollectUpdates(p) ==
  (IF TruthyText(p, "title") THEN "title" :> p.title ELSE << >>) @@
  (IF TruthyText(p, "description") THEN "description" :> p.description ELSE << >>) @@
  (IF Has(p, "priority") THEN "priority" :> p.priority ELSE << >>)

UpdateTicketStart(p, u) ==
  Await(<<"updateTicket", "primary">>, getTicketStart(p.identifier), u)

UpdateStart(p) ==
  IF TruthyChars(p, "status")
    THEN Await(<<"update", "primary">>, getTicketStart(p.identifier), CollectUpdates(p))
    ELSE UpdateTicketStart(p, CollectUpdates(p))

\* the update handler after its getWorkflowStates call
UpdateAfterStates(p, u, states) ==
  LET state == FindState(states, p.status)
  IN IF state # << >>
       THEN UpdateTicketStart(p, u @@ ("stateId" :> state[1].id))
       ELSE Return([tmpl |-> "Status not found. Available statuses: ",
                    status |-> p.status, available |-> NamesOf(states)])

\* the update handler after its getTeams call
UpdateAfterTeams(p, u, teams) ==
  LET team == FindTeam(teams, SplitFirst(p.identifier))
  IN IF team # << >>
       THEN Await(<<"update", "states">>, ReqStates(team[1].id), u)
       ELSE UpdateTicketStart(p, u)

UpdateTicketResume(p, pc, u, resp) ==
  LET r == updateTicket(pc[2], p.identifier, u, resp)
  IN IF r.k = "await" THEN Await(<<"updateTicket", r.stage>>, r.req, u) ELSE r

UpdateResume(p, pc, u, resp) ==
  IF pc[1] = "updateTicket"
    THEN LET r == UpdateTicketResume(p, pc, u, resp)
         IN IF r.k = "ok"
              THEN Return([tmpl |-> "Updated ticket:", ticket |-> formatTicket(r.value)])
              ELSE r
  ELSE IF pc[2] \in {"primary", "search"}
    THEN LET g == getTicket(pc[2], p.identifier, resp)
         IN IF g.k = "ok" THEN Await(<<"update", "teams">>, ReqTeams, u)
            ELSE IF g.k = "await" THEN Await(<<"update", g.stage>>, g.req, u)
            ELSE g
  ELSE IF pc[2] = "teams"
    THEN LET t == getTeams(resp)
         IN IF t.k = "throw" THEN t ELSE UpdateAfterTeams(p, u, t.value)
  ELSE LET st == getWorkflowStates(resp)
       IN IF st.k = "throw" THEN st ELSE UpdateAfterStates(p, u, st.value)

\* assignTicket(identifier, userId) is updateTicket(identifier, {assigneeId})
AssignStart(p) == UpdateTicketStart(p, "assigneeId" :> p.userId)

AssignResume(p, pc, u, resp) ==
  LET r == UpdateTicketResume(p, pc, u, resp)
  IN IF r.k = "ok"
       THEN Return([tmpl |-> "Assigned", identifier |-> r.value.identifier,
                    name |-> IF r.value.assignee # << >>
                               THEN r.value.assignee[1].name ELSE "user"])
       ELSE r

\* a handler that ignores params.limit
ListLimitIgnored(p) == 50

\* params.limit || 50
ListLimit(p) == IF TruthyNumber(p, "limit") THEN p.limit ELSE 50

ListStart(p) ==
  Await(<<"list", "issues">>,
        listTicketsStart(p.projectKey,
                         IF Has(p, "status") THEN <<p.status>> ELSE << >>,
                         ListLimit(p)),
        << >>)

ListResume(p, pc, resp) ==
  LET l == listTickets(resp)
  IN IF l.k = "throw" THEN l
     ELSE Return([tmpl |-> "Tickets in", key |-> p.projectKey,
                  status |-> IF TruthyChars(p, "status") THEN <<p.status>> ELSE << >>,
                  tickets |-> l.value,
                  body |-> formatTicketList(l.value)])

UsersStart(p) == Await(<<"users", "users">>, ReqUsers, << >>)

UsersResume(p, pc, resp) ==
  LET us == getUsers(resp)
  IN IF us.k = "throw" THEN us
     ELSE Return([tmpl |-> "Linear Users:", body |-> formatUserList(us.value)])

\* a handler without its try/catch: the exception goes on to the host
CatchNothing(tool, r) == r

\* catch (error) { return textResponse(phrase + error.message) }
Catch(tool, r) ==
  IF r.k = "throw"
    THEN Return([tmpl |-> FailurePhrase(tool), error |-> r.error])
    ELSE r

HandlerStart(tool, p) ==
  Catch(tool,
    CASE tool = "linear_create_ticket" -> CreateStart(p)
      [] tool = "linear_read_ticket" -> ReadStart(p)
      [] tool = "linear_update_ticket" -> UpdateStart(p)
      [] tool = "linear_assign_ticket" -> AssignStart(p)
      [] tool = "linear_list_tickets" -> ListStart(p)
      [] OTHER -> UsersStart(p))

HandlerResume(tool, p, pc, u, resp) ==
  Catch(tool,
    CASE tool = "linear_create_ticket" -> CreateResume(p, pc, resp)
      [] tool = "linear_read_ticket" -> ReadResume(p, pc, resp)
      [] tool = "linear_update_ticket" -> UpdateResume(p, pc, u, resp)
      [] tool = "linear_assign_ticket" -> AssignResume(p, pc, u, resp)
      [] tool = "linear_list_tickets" -> ListResume(p, pc, resp)
      [] OTHER -> UsersResume(p, pc, resp))

-----------------------------------------------------------------------------
(* The host: configuration, registration and invocation *)

Opt(f, vals) == {<< >>} \cup {f :> v : v \in vals}

\* configurations the host can load the plugin with
Configs == {[cfg |-> c, logger |-> l] : c \in Opt("apiKey", {"", "lin_api_key"}),
                                        l \in BOOLEAN}

KeyLower == <<"e","n","g">>
KeyMixed == <<"O","p","s">>
KeyNone == <<"Z","Z","Z">>
StatusDONE == <<"D","O","N","E">>
StatusNope == <<"N","o","p","e">>

ProjectKeys == {KeyENG, KeyLower, KeyMixed, KeyNone}

CreateParams ==
  {[title |-> "New", projectKey |-> key] @@ d @@ a :
     key \in ProjectKeys, d \in Opt("description", {"Text"}),
     a \in Opt("assigneeId", {"u1"})}

ReadParams == {[identifier |-> id] : id \in {IdENG1, IdOLD7, IdENG9}}

UpdateParams ==
  {[identifier |-> id] @@ t @@ d @@ st @@ pr :
     id \in {IdENG1, IdOLD7, IdENG9},
     t \in Opt("title", {"", "New title"}),
     d \in Opt("description", {"", "New text"}),
     st \in Opt("status", {StatusDONE, StatusNope}),
     pr \in Opt("priority", {0})}

AssignParams == {[identifier |-> id, userId |-> "u1"] : id \in {IdENG1, IdENG9}}

ListParams ==
  {[projectKey |-> key] @@ st @@ l :
     key \in ProjectKeys, st \in Opt("status", {NameTodo}),
     l \in Opt("limit", {0, 1, 100, 101, 150})}

UsersParams == {<< >>}

\* the numeric ranges the input schemas declare
MinPriority == 0
MaxPriority == 4
MinLimit == 1
MaxLimit == 100

SchemaOk(tool, p) ==
  /\ tool = "linear_update_ticket" /\ Has(p, "priority")
       => p.priority >= MinPriority /\ p.priority <= MaxPriority
  /\ tool = "linear_list_tickets" /\ Has(p, "limit")
       => p.limit >= MinLimit /\ p.limit <= MaxLimit

Idle == [tool |-> "none", params |-> << >>, pc |-> <<"idle">>, pending |-> {},
         log |-> << >>, answers |-> << >>, updates |-> << >>,
         outcome |-> "none", text |-> << >>]

Running(s) == s.pending # {}

\* the invocation s after its handler ran to control result r
Settle(s, r) ==
  IF r.k = "await"
    THEN [s EXCEPT !.pc = r.pc, !.pending = {r.req[k] : k \in 1..Len(r.req)},
                   !.log = @ \o r.req, !.updates = r.updates]
  ELSE IF r.k = "return"
    THEN [s EXCEPT !.pc = <<"done">>, !.pending = {}, !.outcome = "returned",
                   !.text = <<r.text>>]
  ELSE [s EXCEPT !.pc = <<"done">>, !.pending = {}, !.outcome = "threw"]

Init ==
  /\ config \in Configs
  /\ registered = << >>
  /\ warnings = << >>
  /\ infos = << >>
  /\ issues = InitialIssues
  /\ inv = [i \in Slots |-> Idle]
  /\ started = -1

\* a registration that leaves out the last tool
registerFiveTools == SubSeq(ToolNames, 1, 5)

\* registerLinearTools: six registerTool calls
registerLinearTools == ToolNames

\* register(api), called once by the host when it loads the plugin
Register ==
  /\ started = -1
  /\ started' = 0
  /\ IF ~TruthyText(config.cfg, "apiKey")
       THEN /\ warnings' = IF config.logger
                             THEN Append(warnings, "Linear plugin: apiKey not configured")
                             ELSE warnings
            /\ UNCHANGED <<registered, infos>>
       ELSE /\ registered' = registered \o registerLinearTools
            /\ infos' = IF config.logger
                          THEN infos \o <<"Linear plugin: initializing...",
                                          "Linear plugin: 6 tools registered">>
                          ELSE infos
            /\ UNCHANGED warnings
  /\ UNCHANGED <<config, issues, inv>>

IsRegistered(tool) == \E k \in 1..Len(registered) : registered[k] = tool

\* The host calls a registered tool with params p in slot i, while fewer than
\* cap invocations are in flight (MaxInvocations rounds of cap invocations).  Params that violate the declared input
\* schema are rejected by the host and never reach the handler.
Invoke(i, tool, p, cap) ==
  /\ started >= 0 /\ started < MaxInvocations * cap
  /\ IsRegistered(tool)
  /\ ~Running(inv[i])
  /\ \A j \in Slots : j < i => Running(inv[j])
  /\ Cardinality({j \in Slots : Running(inv[j])}) < cap
  /\ started' = started + 1
  /\ inv' = [inv EXCEPT ![i] =
       IF SchemaOk(tool, p)
         THEN Settle([Idle EXCEPT !.tool = tool, !.params = p], HandlerStart(tool, p))
         ELSE [Idle EXCEPT !.tool = tool, !.params = p, !.pc = <<"done">>,
                           !.outcome = "rejected"]]
  /\ UNCHANGED <<config, registered, warnings, infos, issues>>

InvokeCreate(i, cap) == \E p \in CreateParams : Invoke(i, "linear_create_ticket", p, cap)
InvokeRead(i, cap) == \E p \in ReadParams : Invoke(i, "linear_read_ticket", p, cap)
InvokeUpdate(i, cap) == \E p \in UpdateParams : Invoke(i, "linear_update_ticket", p, cap)
InvokeAssign(i, cap) == \E p \in AssignParams : Invoke(i, "linear_assign_ticket", p, cap)
InvokeList(i, cap) == \E p \in ListParams : Invoke(i, "linear_list_tickets", p, cap)
InvokeUsers(i, cap) == \E p \in UsersParams : Invoke(i, "linear_get_users", p, cap)

\* The remote service answers a pending request of invocation i and the
\* handler runs on from its await.
Respond(i) ==
  \E r \in inv[i].pending : \E o \in RemoteOutcomes(r, issues) :
    /\ issues' = o.issues
    /\ inv' = [inv EXCEPT ![i] =
         Settle([inv[i] EXCEPT !.answers = Append(@, o.resp)],
                HandlerResume(inv[i].tool, inv[i].params, inv[i].pc,
                              inv[i].updates, o.resp))]
    /\ UNCHANGED <<config, registered, warnings, infos, started>>

\* one invocation at a time
Next ==
  \/ Register
  \/ \E i \in Slots : InvokeCreate(i, 1)
  \/ \E i \in Slots : InvokeRead(i, 1)
  \/ \E i \in Slots : InvokeUpdate(i, 1)
  \/ \E i \in Slots : InvokeAssign(i, 1)
  \/ \E i \in Slots : InvokeList(i, 1)
  \/ \E i \in Slots : InvokeUsers(i, 1)
  \/ \E i \in Slots : Respond(i)

Spec == Init /\ [][Next]_vars

\* calls on one ticket that each supply one field
InFlightUpdateParams ==
  {[identifier |-> IdENG1] @@ f :
     f \in {"title" :> "New title", "description" :> "New text",
            "priority" :> 0}}

InFlightAssignParams == {[identifier |-> IdENG1, userId |-> "u1"]}

InvokeUpdateInFlight(i) ==
  \E p \in InFlightUpdateParams : Invoke(i, "linear_update_ticket", p, 2)

InvokeAssignInFlight(i) ==
  \E p \in InFlightAssignParams : Invoke(i, "linear_assign_ticket", p, 2)

\* two invocations on the same ticket in flight at a time
NextInFlight ==
  \/ Register
  \/ \E i \in Slots : InvokeUpdateInFlight(i)
  \/ \E i \in Slots : InvokeAssignInFlight(i)
  \/ \E i \in Slots : Respond(i)

SpecInFlight == Init /\ [][NextInFlight]_vars

-----------------------------------------------------------------------------
(* Vocabulary of the properties *)

Invoked(s) == s.tool # "none"

Finished(s) == s.outcome # "none"

Returned(s) == s.outcome = "returned"

FailureText(s) == Returned(s) /\ s.text[1].tmpl \in FailurePhrases

FailedWith(s, e) == FailureText(s) /\ s.text[1].error = e

\* the primary lookup gave no ticket: the request threw or carried no issue
NoIssue(a) == a.t = "error" \/ a.data.issue = << >>

\* the search gave no ticket: the request threw or matched nothing
NoNode(a) == a.t = "error" \/ a.data.nodes = << >>

IssuedKinds(s) == {s.log[k].kind : k \in 1..Len(s.log)}

\* two characters that are the same letter in either case
SameLetter(c, d) ==
  c = d \/ \E k \in 1..Len(UpperLetters) : {c, d} = {UpperLetters[k], LowerLetters[k]}

EqualsIgnoreCase(a, b) ==
  Len(a) = Len(b) /\ \A k \in 1..Len(a) : SameLetter(a[k], b[k])

-----------------------------------------------------------------------------
\* C1: every tool handler, whatever the remote service answers to each of its
\* calls (data, transport failure, unsuccessful mutation, empty result), ends
\* by returning a text response; no exception reaches the host, and a handler
\* that has not ended is awaiting a call.
C1_HandlersReturnText ==
  \A i \in Slots :
    LET s == inv[i]
    IN /\ s.outcome # "threw"
       /\ Invoked(s) /\ ~Finished(s) => Running(s)
       /\ Returned(s) => Len(s.text) = 1 /\ "tmpl" \in DOMAIN s.text[1]
       /\ Returned(s) /\ Len(s.answers) > 0 /\ s.answers[Len(s.answers)].t = "error"
            => FailedWith(s, TransportError) /\ s.text[1].tmpl = FailurePhrase(s.tool)

\* an update whose mutation the service answered with success = false ended in
\* the handler's failure text
C1_Witness ==
  \E i \in Slots :
    /\ inv[i].tool = "linear_update_ticket"
    /\ FailedWith(inv[i], UpdateFailed)
    /\ inv[i].answers[Len(inv[i].answers)].t = "data"

-----------------------------------------------------------------------------
\* the ticket the read handler rendered
ReadTicketText(s) == [tmpl |-> "Ticket", ticket |-> s.text[1].ticket]

\* what the primary path gives for identifier when it succeeds
PrimaryShape(identifier) ==
  formatTicket(mapIssue(Payload(ByIdentifier(issues, identifier)[1])))

\* C2 as stated: getTicket (seen through read-ticket) issues the search after
\* a failed primary lookup, returns the match of the search in the shape of the
\* primary path, and fails with NotFound exactly when neither path yields a
\* ticket.
C2_NotFoundIffNeitherPathYields ==
  \A i \in Slots :
    LET s == inv[i]
    IN s.tool = "linear_read_ticket" /\ Finished(s)
         => (FailedWith(s, NotFound(s.params.identifier))
               <=> /\ NoIssue(s.answers[1])
                   /\ Len(s.answers) = 2 /\ NoNode(s.answers[2]))

\* C2 (amended): when the primary lookup fails (throws or carries no issue) the
\* search by identifier is the next request; a match of the search is returned
\* in the shape the primary path gives; getTicket fails with NotFound exactly
\* when the primary lookup fails and the search answers with no match, and it
\* fails with the transport failure when the search request itself fails.
C2_FallbackThenNotFound ==
  \A i \in Slots :
    LET s == inv[i]
        id == s.params.identifier
        a == s.answers
    IN s.tool = "linear_read_ticket" =>
         /\ s.log[1] = ReqIssue(id)
         /\ Len(a) >= 1 /\ NoIssue(a[1]) => Len(s.log) = 2 /\ s.log[2] = ReqSearch(id)
         /\ Len(a) >= 1 /\ ~NoIssue(a[1])
              => Len(s.log) = 1 /\ Returned(s)
                 /\ s.text[1] = [tmpl |-> "Ticket", ticket |-> PrimaryShape(id)]
         /\ Len(a) = 2 /\ ~NoNode(a[2])
              => Returned(s)
                 /\ s.text[1] = [tmpl |-> "Ticket",
                                 ticket |-> formatTicket(mapIssue(a[2].data.nodes[1]))]
                 /\ s.text[1].ticket = PrimaryShape(id)
         /\ Finished(s)
              => (FailedWith(s, NotFound(id))
                    <=> Len(a) = 2 /\ a[2].t = "data" /\ a[2].data.nodes = << >>)
         /\ Len(a) = 2 /\ a[2].t = "error" => FailedWith(s, TransportError)

\* the primary lookup of an existing ticket failed and the search returned it
C2_Witness ==
  \E i \in Slots :
    /\ inv[i].tool = "linear_read_ticket"
    /\ Len(inv[i].answers) = 2
    /\ inv[i].answers[1].t = "error"
    /\ ~NoNode(inv[i].answers[2])
    /\ Returned(inv[i]) /\ inv[i].text[1].tmpl = "Ticket"

-----------------------------------------------------------------------------
\* every answer the invocation got carried data, and no mutation was refused
AllAnswered(s) ==
  \A k \in 1..Len(s.answers) :
    /\ s.answers[k].t = "data"
    /\ "success" \in DOMAIN s.answers[k].data => s.answers[k].data.success

TicketExists(identifier) == ByIdentifier(issues, identifier) # << >>

OtherFields == {"title", "description", "priority"}

\* the status of p names no workflow state of the team its identifier names
StatusUnresolvable(p) ==
  \/ \A k \in 1..Len(Teams) : ~EqualsIgnoreCase(Teams[k].key, SplitFirst(p.identifier))
  \/ \E k \in 1..Len(Teams) :
       /\ EqualsIgnoreCase(Teams[k].key, SplitFirst(p.identifier))
       /\ \A m \in 1..Len(WorkflowStates(Teams[k].id)) :
            ~EqualsIgnoreCase(WorkflowStates(Teams[k].id)[m].name, p.status)

UpdateRequests(s) == {k \in 1..Len(s.log) : s.log[k].kind = "issueUpdate"}

\* C3: an update-ticket call whose status resolves to no workflow state and
\* that supplies other fields still issues the update mutation with those
\* fields (every call of the invocation being answered with data).
C3_UnresolvedStatusStillUpdates ==
  \A i \in Slots :
    LET s == inv[i]
        p == s.params
    IN /\ s.tool = "linear_update_ticket" /\ Finished(s) /\ SchemaOk(s.tool, p)
       /\ Has(p, "status") /\ StatusUnresolvable(p)
       /\ DOMAIN p \cap OtherFields # {}
       /\ TicketExists(p.identifier) /\ AllAnswered(s)
       => \E k \in UpdateRequests(s) :
            \A f \in DOMAIN p \cap OtherFields :
              Has(s.log[k].input, f) /\ s.log[k].input[f] = p[f]

\* the fields of the mutation input the caller's parameters call for: the
\* other fields supplied, and stateId when a status is supplied and resolves
SuppliedFields(p) ==
  (DOMAIN p \cap OtherFields) \cup
  (IF Has(p, "status") /\ ~StatusUnresolvable(p) THEN {"stateId"} ELSE {})

\* C4: the fields the update mutation of an update-ticket call carries are
\* exactly the fields the caller supplied (status as stateId once resolved),
\* with the caller's values for title, description and priority.
C4_MutationCarriesExactlySupplied ==
  \A i \in Slots :
    LET s == inv[i]
        p == s.params
    IN s.tool = "linear_update_ticket" =>
         \A k \in UpdateRequests(s) :
           /\ DOMAIN s.log[k].input = SuppliedFields(p)
           /\ \A f \in DOMAIN p \cap OtherFields : s.log[k].input[f] = p[f]

-----------------------------------------------------------------------------
KnownTeamKey(key) == \E k \in 1..Len(Teams) : EqualsIgnoreCase(Teams[k].key, key)

TeamIdOfKey(key) ==
  Teams[CHOOSE k \in 1..Len(Teams) : EqualsIgnoreCase(Teams[k].key, key)].id

\* C5: list-tickets with a team key that matches no team returns a response
\* that lists all team keys, and issues no mutation.
C5_UnknownKeyListsTeams ==
  \A i \in Slots :
    LET s == inv[i]
    IN /\ s.tool = "linear_list_tickets" /\ Returned(s) /\ AllAnswered(s)
       /\ ~KnownTeamKey(s.params.projectKey)
       => /\ "available" \in DOMAIN s.text[1]
          /\ s.text[1].available = KeysOf(Teams)
          /\ IssuedKinds(s) \cap MutationKinds = {}

\* the tickets of the team named by key (and in the state named by status, if
\* given), at most limit of them
TicketsOfTeam(key, status, limit) ==
  LET own == Filter(issues, LAMBDA x :
               /\ x.team = TeamIdOfKey(key)
               /\ status # << >> => x.state.name = status[1])
      first == Take(own, limit)
  IN [k \in 1..Len(first) |-> mapIssue(Payload(first[k]))]

\* C6: list-tickets with any letter-case variant of an existing team's key
\* returns the tickets of that team and only those.
C6_ListMatchesKeyIgnoringCase ==
  \A i \in Slots :
    LET s == inv[i]
        p == s.params
    IN /\ s.tool = "linear_list_tickets" /\ Returned(s) /\ AllAnswered(s)
       /\ KnownTeamKey(p.projectKey)
       => /\ "tickets" \in DOMAIN s.text[1]
          /\ s.text[1].tickets
               = TicketsOfTeam(p.projectKey,
                               IF Has(p, "status") THEN <<p.status>> ELSE << >>,
                               IF Has(p, "limit") THEN p.limit ELSE 50)

-----------------------------------------------------------------------------
CreateRequests(s) == {k \in 1..Len(s.log) : s.log[k].kind = "issueCreate"}

\* C7: create-ticket fetches all teams first and matches the key ignoring
\* case; with no matching team it returns the message that lists every team
\* key and never issues the create mutation; with a matching team the create
\* mutation is issued with that team's id.
C7_CreateResolvesTeam ==
  \A i \in Slots :
    LET s == inv[i]
        p == s.params
    IN s.tool = "linear_create_ticket" =>
         /\ s.log[1] = ReqTeams
         /\ Len(s.answers) = 0 \/ s.answers[1].t = "error" => CreateRequests(s) = {}
         /\ Len(s.answers) >= 1 /\ s.answers[1].t = "data" =>
              IF KnownTeamKey(p.projectKey)
                THEN /\ CreateRequests(s) = {2}
                     /\ s.log[2].input.teamId = TeamIdOfKey(p.projectKey)
                     /\ s.log[2].input.title = p.title
                ELSE /\ CreateRequests(s) = {}
                     /\ Len(s.log) = 1
                     /\ Returned(s)
                     /\ s.text[1] = [tmpl |-> "Team with key not found. Available teams: ",
                                     key |-> p.projectKey,
                                     available |-> <<KeyENG, KeyOPS>>]

\* a create with the key in another letter case issued the mutation for ENG
C7_Witness ==
  \E i \in Slots :
    /\ inv[i].tool = "linear_create_ticket"
    /\ inv[i].params.projectKey = KeyLower
    /\ Len(inv[i].log) = 2
    /\ inv[i].log[2].kind = "issueCreate"
    /\ inv[i].log[2].input.teamId = "t1"

-----------------------------------------------------------------------------
Registration == started >= 0

ApiKeyPresent == Has(config.cfg, "apiKey") /\ config.cfg.apiKey # ""

\* C8 as stated: without an API key no tool is registered and exactly one
\* warning is reported; with an API key all six tools are registered.
C8_OneWarningOrSixTools ==
  Registration =>
    IF ApiKeyPresent
      THEN Len(registered) = 6 /\ Len(warnings) = 0
      ELSE Len(registered) = 0 /\ Len(warnings) = 1

\* C8 (amended): without an API key no tool is registered, and exactly one
\* warning is reported when the host supplies a logger and none when it
\* supplies no logger; with an API key the six tools are registered, each
\* once, and no warning is reported.
C8_WarnsThroughLoggerOrRegistersSix ==
  /\ ~Registration => Len(registered) = 0 /\ Len(warnings) = 0
  /\ Registration =>
       IF ApiKeyPresent
         THEN /\ Len(registered) = 6
              /\ {registered[k] : k \in 1..Len(registered)}
                   = {"linear_create_ticket", "linear_read_ticket",
                      "linear_update_ticket", "linear_assign_ticket",
                      "linear_list_tickets", "linear_get_users"}
              /\ Len(warnings) = 0
         ELSE /\ Len(registered) = 0
              /\ Len(warnings) = (IF config.logger THEN 1 ELSE 0)
              /\ \A i \in Slots : ~Invoked(inv[i])

\* a plugin loaded without an API key and with a logger reported its warning
C8_Witness ==
  /\ Registration
  /\ ~ApiKeyPresent
  /\ config.logger
  /\ warnings = <<"Linear plugin: apiKey not configured">>
  /\ registered = << >>

-----------------------------------------------------------------------------
\* the limit the caller asked for
RequestedLimit(p) == IF Has(p, "limit") THEN p.limit ELSE 50

-----------------------------------------------------------------------------
\* C10 as stated: an invocation issues at most 3 network calls, one after
\* another.
C10_AtMostThreeCalls ==
  \A i \in Slots :
    /\ Len(inv[i].log) <= 3
    /\ Cardinality(inv[i].pending) <= 1

\* the most calls one invocation of the tool issues
CallLimit(tool) ==
  CASE tool = "linear_create_ticket" -> 2
    [] tool = "linear_read_ticket" -> 2
    [] tool = "linear_update_ticket" -> 7
    [] tool = "linear_assign_ticket" -> 3
    [] OTHER -> 1

\* C10 (amended): an invocation issues at most 7 network calls (update-ticket
\* with a status: getTicket with up to 2 calls, getTeams, getWorkflowStates,
\* then updateTicket's own getTicket with up to 2 calls and the mutation;
\* at most 2 for create and read, 3 for assign, 1 for list and get-users),
\* one after another: a call is issued only when every earlier call of the
\* invocation has been answered.
C10_AtMostSevenCallsInSequence ==
  \A i \in Slots :
    LET s == inv[i]
    IN /\ Len(s.log) <= 7
       /\ Invoked(s) => Len(s.log) <= CallLimit(s.tool)
       /\ Cardinality(s.pending) <= 1
       /\ Running(s) => s.pending = {s.log[Len(s.log)]}
       /\ Len(s.log) = Len(s.answers) + Cardinality(s.pending)

\* an update with a status whose two getTicket calls both needed the search
C10_Witness ==
  \E i \in Slots :
    /\ inv[i].tool = "linear_update_ticket"
    /\ Len(inv[i].log) = 7
    /\ Len(inv[i].answers) = 7
    /\ inv[i].log[7].kind = "issueUpdate"

-----------------------------------------------------------------------------
\* the calls of s that failed in transport
FailedCalls(s) == {k \in 1..Len(s.answers) : s.answers[k].t = "error"}

\* C11 as stated: once a call of an invocation fails in transport, the
\* invocation issues no further call and ends in a failure report.
C11_FailureEndsInvocation ==
  \A i \in Slots :
    LET s == inv[i]
    IN \A k \in FailedCalls(s) :
         /\ Len(s.log) = k
         /\ FailureText(s)

\* C11 (amended): a transport failure of any call other than getTicket's
\* primary lookup is final: the invocation issues no further call and returns
\* its failure text with that failure.  A failed primary lookup is followed by
\* exactly one search for the same identifier, which is the only further
\* attempt; the invocation goes on as getTicket's search decides.
C11_OnlyPrimaryLookupFallsBack ==
  \A i \in Slots :
    LET s == inv[i]
    IN \A k \in FailedCalls(s) :
         IF s.log[k].kind = "issue"
           THEN /\ Len(s.log) > k
                /\ s.log[k + 1] = ReqSearch(s.log[k].identifier)
                /\ Len(s.answers) > k /\ NoNode(s.answers[k + 1])
                     => Len(s.log) = k + 1 /\ FailureText(s)
           ELSE /\ Len(s.log) = k
                /\ Finished(s)
                /\ FailedWith(s, TransportError)
                /\ s.text[1].tmpl = FailurePhrase(s.tool)

\* an update whose getTeams call failed ended there with the failure text
C11_Witness ==
  \E i \in Slots :
    /\ inv[i].tool = "linear_update_ticket"
    /\ Len(inv[i].log) = 2
    /\ inv[i].log[2].kind = "teams"
    /\ inv[i].answers = <<inv[i].answers[1], Error>>
    /\ FailedWith(inv[i], TransportError)

-----------------------------------------------------------------------------
\* the ticket payload the answer a of a getTicket request carried, if any
TicketIn(a) ==
  IF a.t = "error" THEN << >>
  ELSE IF "issue" \in DOMAIN a.data THEN a.data.issue
  ELSE Take(a.data.nodes, 1)

UsesUpdateTicket(s) == s.tool \in {"linear_update_ticket", "linear_assign_ticket"}

\* a getTicket of the invocation failed at call k: its search gave no ticket
LookupEndedAt(s, k) ==
  /\ k <= Len(s.answers)
  /\ s.log[k].kind = "searchIssue"
  /\ TicketIn(s.answers[k]) = << >>

\* C12: update-ticket and assign-ticket issue the update mutation only after
\* a getTicket for the identifier has returned the ticket, and address it by
\* that ticket's internal id; when getTicket fails no mutation is issued and
\* the failure reported is getTicket's; when the mutation is answered with
\* success = false the failure is 'Failed to update ticket'.
C12_MutationAfterGetTicket ==
  \A i \in Slots :
    LET s == inv[i]
        id == s.params.identifier
    IN UsesUpdateTicket(s) =>
         /\ \A k \in UpdateRequests(s) :
              /\ k >= 2
              /\ k = Len(s.log)
              /\ s.log[k - 1] \in {ReqIssue(id), ReqSearch(id)}
              /\ TicketIn(s.answers[k - 1]) # << >>
              /\ TicketIn(s.answers[k - 1])[1].identifier = id
              /\ s.log[k].id = TicketIn(s.answers[k - 1])[1].id
              /\ \E m \in 1..Len(issues) :
                   issues[m].id = s.log[k].id /\ issues[m].identifier = id
         /\ \A k \in 1..Len(s.log) :
              LookupEndedAt(s, k)
                => /\ UpdateRequests(s) = {}
                   /\ Len(s.log) = k
                   /\ IF s.answers[k].t = "error"
                        THEN FailedWith(s, TransportError)
                        ELSE FailedWith(s, NotFound(id))
         /\ \A k \in UpdateRequests(s) :
              k <= Len(s.answers) /\ s.answers[k].t = "data"
              /\ ~s.answers[k].data.success
                => FailedWith(s, UpdateFailed)
         /\ Returned(s) /\ ~FailureText(s) /\ s.text[1].tmpl # "Status not found. Available statuses: "
              => UpdateRequests(s) = {Len(s.log)}

\* an assign found the ticket through the search and sent the mutation for
\* its internal id, which the service answered with success = false
C12_Witness ==
  \E i \in Slots :
    /\ inv[i].tool = "linear_assign_ticket"
    /\ Len(inv[i].log) = 3
    /\ inv[i].log[2].kind = "searchIssue"
    /\ inv[i].log[3] = ReqUpdate("i1", [assigneeId |-> "u1"])
    /\ FailedWith(inv[i], UpdateFailed)

-----------------------------------------------------------------------------
\* the team key taken from the identifier of p matches no team
TeamOfIdentifierUnknown(p) == ~KnownTeamKey(SplitFirst(p.identifier))

\* C13: an update-ticket call with a status, whose identifier names no team,
\* skips the status without a message: the update mutation is issued with
\* every other supplied field and without stateId, and the handler reports the
\* updated ticket (every call of the invocation being answered with data).
C13_UnknownTeamSkipsStatus ==
  \A i \in Slots :
    LET s == inv[i]
        p == s.params
    IN /\ s.tool = "linear_update_ticket" /\ Finished(s) /\ SchemaOk(s.tool, p)
       /\ TruthyChars(p, "status") /\ TeamOfIdentifierUnknown(p)
       /\ TicketExists(p.identifier) /\ AllAnswered(s)
       => /\ Returned(s) /\ s.text[1].tmpl = "Updated ticket:"
          /\ UpdateRequests(s) = {Len(s.log)}
          /\ s.log[Len(s.log)].input = Pick(p, OtherFields)
          /\ \A k \in 1..Len(s.log) : s.log[k].kind # "states"

-----------------------------------------------------------------------------
\* the ticket fields an update-ticket or assign-ticket call supplies
FieldsOf(s) ==
  IF s.tool = "linear_assign_ticket" THEN {"assignee"}
  ELSE DOMAIN s.params \cap {"title", "description", "priority", "status"}

\* the ticket field an input field of the mutation writes
TicketField(f) ==
  IF f = "assigneeId" THEN "assignee" ELSE IF f = "stateId" THEN "status" ELSE f

\* the issue holds the value the call s supplied for its field f
HoldsValue(issue, s, f) ==
  CASE f = "title" -> issue.title = s.params.title
    [] f = "description" -> issue.description = <<s.params.description>>
    [] f = "priority" -> issue.priority = s.params.priority
    [] f = "assignee" -> issue.assignee # << >> /\ issue.assignee[1].id = s.params.userId
    [] OTHER -> EqualsIgnoreCase(issue.state.name, s.params.status)

Succeeded(s) == Returned(s) /\ s.text[1].tmpl \in {"Updated ticket:", "Assigned"}

====
